---- MODULE Spec2Model ----
(***************************************************************************)
(* Headless render-and-capture pipeline of Open3DHeadless.cpp:             *)
(* main -> LoadGeometry -> scene setup -> orbit loop of RenderSnapshot,    *)
(* with the rendering engine's ReadPixelsCallback running on the engine's  *)
(* own thread, interleaved with the control thread.                        *)
(***************************************************************************)
EXTENDS Integers, Sequences, FiniteSets, TLC

(* ------------------------------ bounds --------------------------------- *)
\* number of orbit iterations of the model (the program loops 360 times)
NumFrames == 2
\* largest vertex count / triangle count / point count a parsed file carries
MaxVerts == 2
MaxTris == 1
MaxPoints == 1

(* ------------------------- program constants --------------------------- *)
\* minimum width of the {:0>5d} field of the output filename
FmtWidth == 5
\* the orbit loop's iteration count: for(int i = 0; i < 360; ++i)
OrbitCount == 360
\* kBufferHeight * kBufferWidth * 3 * sizeof(uint8_t)
kBufferWidth == 1920
kBufferHeight == 1080
BufferSize == kBufferHeight * kBufferWidth * 3

Frames == 0 .. (NumFrames - 1)

(* --------------------------- pure helpers ------------------------------ *)
\* decimal digits of a natural number, most significant first
RECURSIVE Digits(_)
Digits(n) == IF n < 10 THEN <<n>> ELSE Digits(n \div 10) \o <<n % 10>>

\* right-align s in a field of at least w, filling with 0 ({:0>5d})
RECURSIVE PadLeft(_, _)
PadLeft(s, w) == IF Len(s) >= w THEN s ELSE PadLeft(<<0>> \o s, w)

\* fmt::format("headless_out/out_{:0>5d}.png", i)
Filename(i) == <<"headless_out/out_">> \o PadLeft(Digits(i), FmtWidth) \o <<".png">>

\* the empty std::string
EmptyName == << >>
\* whatever bytes a destroyed std::string may read as
GarbageName == <<"?">>

\* an empty shared_ptr
NullPtr == [kind |-> "null"]

\* std::make_shared<geometry::TriangleMesh>(): an empty mesh
EmptyMesh ==
    [kind |-> "TriangleMesh", vertices |-> 0, triangles |-> 0,
     vertex_normals |-> 0, normals_src |-> "none",
     vertex_colors |-> 0, colors_src |-> "none",
     triangle_uvs |-> 0, uvs_src |-> "none", materials |-> << >>]

\* std::make_shared<geometry::PointCloud>(): an empty cloud
EmptyCloud ==
    [kind |-> "PointCloud", points |-> 0, normals |-> 0,
     normals_src |-> "none", unit |-> TRUE]

\* the image members of a mesh material (geometry::TriangleMesh::Material) and
\* the member of TextureMaps each one is bound to
MapOf ==
    [albedo             |-> "albedo_map",
     normalMap          |-> "normal_map",
     ambientOcclusion   |-> "ambient_occlusion_map",
     roughness          |-> "roughness_map",
     metallic           |-> "metallic_map",
     reflectance        |-> "reflectance_map",
     clearCoat          |-> "clear_coat_map",
     clearCoatRoughness |-> "clear_coat_roughness_map",
     anisotropy         |-> "anisotropy_map"]

\* a mesh material named tag with the given images; its scalars are its own
Material(tag, images) ==
    [name                   |-> tag,
     baseColor              |-> << <<tag, "baseColor.r">>, <<tag, "baseColor.g">>,
                                   <<tag, "baseColor.b">> >>,
     baseMetallic           |-> <<tag, "baseMetallic">>,
     baseRoughness          |-> <<tag, "baseRoughness">>,
     baseReflectance        |-> <<tag, "baseReflectance">>,
     baseClearCoat          |-> <<tag, "baseClearCoat">>,
     baseClearCoatRoughness |-> <<tag, "baseClearCoatRoughness">>,
     baseAnisotropy         |-> <<tag, "baseAnisotropy">>,
     images                 |-> images]

\* the materials_ member of a mesh that io::ReadTriangleMesh can leave: none,
\* or one material with an albedo and a metallic image and a normal map without data
LoadableMaterials ==
    {<< >>,
     <<Material("first", [sl \in DOMAIN MapOf |->
                            IF sl \in {"albedo", "metallic"} THEN "data"
                            ELSE IF sl = "normalMap" THEN "empty" ELSE "absent"])>>}

\* what io::ReadTriangleMesh can leave in the mesh when it returns true
MeshesOf(nv, nt) ==
    { [kind |-> "TriangleMesh", vertices |-> nv, triangles |-> nt,
       vertex_normals |-> nn, normals_src |-> IF nn = 0 THEN "none" ELSE "file",
       vertex_colors |-> nc, colors_src |-> IF nc = 0 THEN "none" ELSE "file",
       triangle_uvs |-> nu, uvs_src |-> IF nu = 0 THEN "none" ELSE "file",
       materials |-> mats] :
      nn \in 0 .. nv, nc \in {0, nv}, nu \in 0 .. (3 * nt), mats \in LoadableMaterials }

ParsedMeshes == UNION { MeshesOf(nv, nt) : nv \in 1 .. MaxVerts, nt \in 0 .. MaxTris }

\* what io::ReadPointCloud can leave in the cloud when it returns true
CloudsOf(np) ==
    { [kind |-> "PointCloud", points |-> np, normals |-> nn,
       normals_src |-> IF nn = 0 THEN "none" ELSE "file",
       unit |-> (nn = 0) \/ u] :
      nn \in {0, np}, u \in BOOLEAN }

ParsedClouds == UNION { CloudsOf(np) : np \in 1 .. MaxPoints }

(* ------------------- geometry library (Open3D/Geometry) ---------------- *)
\* TriangleMesh::ComputeVertexNormals: one normal per vertex
ComputeVertexNormals(m) ==
    [m EXCEPT !.vertex_normals = m.vertices, !.normals_src = "computed"]

\* TriangleMesh::PaintUniformColor: one colour per vertex
PaintUniformColor(m) ==
    [m EXCEPT !.vertex_colors = m.vertices, !.colors_src = "painted"]

\* TriangleMesh::HasTriangleUvs
HasTriangleUvs(m) == m.triangles > 0 /\ m.triangle_uvs = 3 * m.triangles

\* PointCloud::HasNormals
HasNormals(c) == c.points > 0 /\ c.normals = c.points

\* PointCloud::EstimateNormals
EstimateNormals(c) ==
    [c EXCEPT !.normals = c.points, !.normals_src = "estimated", !.unit = FALSE]

\* PointCloud::NormalizeNormals
NormalizeNormals(c) == [c EXCEPT !.unit = TRUE]

(* ------------------------------- state --------------------------------- *)
VARIABLES
    argc,            \* main's argument count
    proc,            \* "running", "exited", "crashed" (signal), "aborted" (uncaught exception)
    mainpc,          \* position of the control thread
    exitcode,        \* main's return value: << >> until it returns, then <<-1>> or <<0>>
    \* LoadGeometry
    geometry_type,   \* geometry_type & io::CONTAINS_TRIANGLES
    mesh,            \* the mesh shared_ptr's pointee, NullPtr after reset()
    mesh_success,
    cloud,           \* the cloud shared_ptr's pointee, NullPtr before make_shared / after reset()
    geometry,        \* LoadGeometry's result
    geom,            \* main's geom
    meshOutcome,     \* what io::ReadTriangleMesh did: "none" (not called), "true", "false", "throw"
    cloudOutcome,    \* what io::ReadPointCloud did, likewise
    \* orbit loop
    i,               \* loop index
    camPose,         \* pose of the last cam->LookAt: <<"none">>, <<"initial">>, <<"orbit", i>>
    calls,           \* RenderSnapshot calls so far: <<index, filename, camera pose>>
    returned,        \* orbit indices whose RenderSnapshot call has returned
    \* RenderSnapshot locals
    buffer,          \* "none", "allocated", "freed"
    read_pixels_started,
    request,         \* the RenderRequest on the stack, NullPtr when none is alive
    observed_done,   \* last value of request.frame_done read by the wait loop
    ops,             \* engine operations of the current RenderSnapshot call, in order
    \* rendering engine
    began,           \* result of beginFrame in the current call
    pending,         \* readbacks issued whose callback has not been invoked yet
    cbpc,            \* position of the engine thread inside ReadPixelsCallback
    cb,              \* the running callback's arguments and locals
    flagged,         \* orbit indices whose callback has set frame_done
    cbdone,          \* orbit indices whose callback has run to its end
    files,           \* image files on disk
    writeFailed,     \* orbit indices whose io::WriteImage returned false
    errors,          \* orbit indices whose callback took the LogError branch
    writeLog,        \* orbit indices of the callbacks that called io::WriteImage, in order
    \* engine objects made during setup
    material_instances, \* materials_.lit_material and materials_.unlit_material
    scene,           \* the scene: its geometries, indirect light and skybox
    \* material binding (PrepareGeometry)
    prep_geom,       \* the geometry PrepareGeometry is called with
    materials_,      \* the global materials_: properties and maps
    textures,        \* the renderer's textures, in the order of the AddTexture calls
    prep_calls,      \* PrepareGeometry calls made so far
    materials_once,  \* materials_ as the first PrepareGeometry call left it
    \* three::ReadTriangleMesh / three::WriteTriangleMesh
    io_pc,           \* "off", "entry", "done"
    io_op,           \* "read" or "write"
    io_filename,     \* the filename argument, a sequence of characters
    io_mesh,         \* the mesh argument: "caller" as passed in, "parsed"/"partial" as a handler leaves it
    io_result,       \* << >> until the function returns, then <<TRUE>> or <<FALSE>>
    io_handlers,     \* format handlers invoked, in order
    io_warnings,     \* warnings printed
    \* three::Visualizer
    visualizer,      \* the Visualizer object: its members and what it has drawn
    last_callback,   \* the window callback delivered last, with its key or button action
    events           \* window events delivered so far

vars == <<argc, proc, mainpc, exitcode, geometry_type, mesh, mesh_success, cloud,
          geometry, geom, meshOutcome, cloudOutcome, i, camPose, calls, returned,
          buffer, read_pixels_started, request, observed_done, began, pending,
          cbpc, cb, flagged, cbdone, files, writeFailed, errors, ops, writeLog,
          material_instances, scene,
          prep_geom, materials_, textures, prep_calls, materials_once,
          io_pc, io_op, io_filename, io_mesh, io_result, io_handlers, io_warnings,
          visualizer, last_callback, events>>

mainVars == <<argc, proc, mainpc, exitcode, geometry_type, mesh, mesh_success, cloud,
              geometry, geom, meshOutcome, cloudOutcome, i, camPose, calls, returned,
              buffer, read_pixels_started, request, observed_done, began, pending,
              cbpc, cb, flagged, cbdone, files, writeFailed, errors, ops, writeLog,
              material_instances, scene>>
sceneVars == <<material_instances, scene>>
prepVars == <<prep_geom, materials_, textures, prep_calls, materials_once>>
ioVars == <<io_pc, io_op, io_filename, io_mesh, io_result, io_handlers, io_warnings>>
viewerVars == <<visualizer, last_callback, events>>
sideVars == <<prepVars, ioVars, sceneVars, viewerVars>>

loadVars == <<geometry_type, mesh, mesh_success, cloud, geometry, meshOutcome, cloudOutcome>>
orbitVars == <<i, camPose, calls, returned>>
snapVars == <<buffer, read_pixels_started, request, observed_done, began, ops>>
engineVars == <<pending, cbpc, cb, flagged, cbdone, files, writeFailed, errors,
                writeLog>>

NoCb == [frame |-> -1, buffer_size |-> 0, checked |-> << >>]

(* ------------------- material binding: PrepareGeometry ------------------ *)
\* handles of visualization::FilamentResourceManager, and of the n-th texture added
kDefaultTexture == <<"kDefaultTexture", 0>>

kDefaultNormalMap == <<"kDefaultNormalMap", 0>>

TextureHandle(n) == <<"texture", n>>

\* struct TextureMaps, default member initialisers
TextureMaps ==
    [albedo_map               |-> kDefaultTexture,
     normal_map               |-> kDefaultNormalMap,
     ambient_occlusion_map    |-> kDefaultTexture,
     roughness_map            |-> kDefaultTexture,
     metallic_map             |-> kDefaultTexture,
     reflectance_map          |-> kDefaultTexture,
     clear_coat_map           |-> kDefaultTexture,
     clear_coat_roughness_map |-> kDefaultTexture,
     anisotropy_map           |-> kDefaultTexture]

\* struct MaterialProperties, default member initialisers
MaterialProperties ==
    [base_color           |-> << <<"const", "0.9f">>, <<"const", "0.9f">>, <<"const", "0.9f">> >>,
     metallic             |-> <<"const", "0.f">>,
     roughness            |-> <<"const", "0.7">>,
     reflectance          |-> <<"const", "0.5f">>,
     clear_coat           |-> <<"const", "0.2f">>,
     clear_coat_roughness |-> <<"const", "0.2f">>,
     anisotropy           |-> <<"const", "0.f">>,
     point_size           |-> <<"const", "5.f">>]

\* materials_ as main sets it up before PrepareGeometry: materials_.maps = TextureMaps()
FreshMaterials == [properties |-> MaterialProperties, maps |-> TextureMaps]

\* materials_ as some earlier binding may have left it: other scalars,
\* metallic 1.f, every slot on the texture added first
PriorMaterials ==
    [properties |-> [f \in DOMAIN MaterialProperties |->
                        IF f = "base_color"
                          THEN << <<"prior", "x">>, <<"prior", "y">>, <<"prior", "z">> >>
                          ELSE IF f = "metallic" THEN <<"const", "1.f">>
                          ELSE <<"prior", f>>],
     maps       |-> [f \in DOMAIN TextureMaps |-> TextureHandle(1)]]

\* the image members of a mesh material, in the order PrepareGeometry visits them
Slots ==
    <<"albedo", "normalMap", "ambientOcclusion", "roughness", "metallic",
      "reflectance", "clearCoat", "clearCoatRoughness", "anisotropy">>

\* an image pointer of a material: null, an image without data, an image with data
ImageKinds == {"absent", "empty", "data"}

\* the geometries PrepareGeometry is applied to: a point cloud, a mesh without
\* materials, a mesh with one material or with a second one behind it
PrepGeometries ==
    {[kind |-> "PointCloud", materials |-> << >>],
     [kind |-> "TriangleMesh", materials |-> << >>]}
    \cup {[kind |-> "TriangleMesh", materials |-> <<Material("first", im)>> \o more] :
            im \in [DOMAIN MapOf -> ImageKinds],
            more \in {<< >>, <<Material("second", [sl \in DOMAIN MapOf |-> "data"])>>}}

\* mesh->HasMaterials()
HasMaterials(g) == g.materials # << >>

\* is_map_valid: map && map->HasData()
is_map_valid_NonNull(image) == image # "absent"

is_map_valid(image) == image = "data"

\* renderer.AddTexture(image): the renderer keeps one more texture and returns
\* the handle of this one
AddTexture(tex, image) == [textures |-> Append(tex, image), handle |-> TextureHandle(Len(tex) + 1)]

\* the copies of the first material's scalars into materials_.properties
CopyScalars(props, mat) ==
    [props EXCEPT !.base_color           = mat.baseColor,
                  !.roughness            = mat.baseRoughness,
                  !.reflectance          = mat.baseReflectance,
                  !.clear_coat           = mat.baseClearCoat,
                  !.clear_coat_roughness = mat.baseClearCoatRoughness,
                  !.anisotropy           = mat.baseAnisotropy]

\* the value the metallic statement assigns to materials_.properties.metallic:
\* 1.f in the branch of a valid map, 0.f in the else branch
MetallicScalar_AlwaysOne(valid) == <<"const", "1.f">>

MetallicScalar(valid) == IF valid THEN <<"const", "1.f">> ELSE <<"const", "0.f">>

\* one if (is_map_valid(mesh_material.<slot>)) statement; st is materials_
\* together with the renderer's textures
BindSlot(st, mat, slot) ==
    LET added == AddTexture(st.textures, <<mat.name, slot>>)
    IN  IF is_map_valid(mat.images[slot])
          THEN [materials |->
                    [st.materials EXCEPT
                        !.maps[MapOf[slot]] = added.handle,
                        !.properties.metallic =
                            IF slot = "metallic" THEN MetallicScalar(TRUE) ELSE @],
                textures |-> added.textures]
          ELSE [st EXCEPT !.materials.properties.metallic =
                              IF slot = "metallic" THEN MetallicScalar(FALSE) ELSE @]

\* the if statements of the slots k .. 9, in order
RECURSIVE BindSlots(_, _, _)
BindSlots(st, mat, k) ==
    IF k > Len(Slots) THEN st
    ELSE BindSlots(BindSlot(st, mat, Slots[k]), mat, k + 1)

\* the body of if (mesh->HasMaterials()): the first material is bound
BindFirstMaterial(g, st) ==
    LET mesh_material == g.materials[1]
    IN  BindSlots([st EXCEPT !.materials.properties = CopyScalars(@, mesh_material)],
                  mesh_material, 1)

\* PrepareGeometry(geom, renderer) applied to materials_ and the renderer's textures
PrepareGeometry_ResetsMetallic(g, st) ==
    IF g.kind = "TriangleMesh" /\ HasMaterials(g)
      THEN BindFirstMaterial(g, st)
      ELSE [st EXCEPT !.materials.properties.metallic = MetallicScalar(FALSE)]

PrepareGeometry(g, st) ==
    IF g.kind = "TriangleMesh" /\ HasMaterials(g)
      THEN BindFirstMaterial(g, st)
      ELSE st

\* bound on the number of PrepareGeometry calls on the same geometry
MaxPrepCalls == 2

\* PrepareGeometry(geom, *renderer), once more on the same geometry
Prep_PrepareGeometry ==
    /\ prep_geom # NullPtr
    /\ prep_calls < MaxPrepCalls
    /\ LET st == PrepareGeometry(prep_geom, [materials |-> materials_, textures |-> textures])
       IN  /\ materials_' = st.materials
           /\ textures' = st.textures
           /\ materials_once' = IF prep_calls = 0 THEN st.materials ELSE materials_once
    /\ prep_calls' = prep_calls + 1
    /\ UNCHANGED <<mainVars, ioVars, viewerVars, prep_geom>>

\* no PrepareGeometry call is under way: materials_ as default-constructed
PrepParked ==
    /\ prep_geom = NullPtr
    /\ materials_ = FreshMaterials
    /\ textures = << >>
    /\ prep_calls = 0
    /\ materials_once = FreshMaterials

(* ------------------------- IO/TriangleMeshIO.cpp ------------------------ *)
\* bound on the length of a filename, and the characters filenames are made of
MaxNameLen == 4

Chars == {"p", "l", "y", "P", ".", "/"}

Names == UNION {[1 .. n -> Chars] : n \in 0 .. MaxNameLen}

\* ::tolower on these characters
ToLower(c) == IF c = "P" THEN "p" ELSE c

\* filename.find_last_of("."): the position of the last dot, 0 when there is none
LastDot(s) ==
    LET dots == {k \in 1 .. Len(s) : s[k] = "."}
    IN  IF dots = {} THEN 0 ELSE CHOOSE k \in dots : \A j \in dots : j <= k

\* IOHelper::GetFileExtensionInLowerCase: what follows the last dot, in lower
\* case; empty when there is no dot, nothing after it, or a path separator in it
GetFileExtensionInLowerCase(s) ==
    LET dot_pos == LastDot(s)
        filename_ext == SubSeq(s, dot_pos + 1, Len(s))
    IN  IF dot_pos = 0 \/ dot_pos = Len(s) THEN << >>
        ELSE IF \E k \in 1 .. Len(filename_ext) : filename_ext[k] = "/" THEN << >>
        ELSE [k \in 1 .. Len(filename_ext) |-> ToLower(filename_ext[k])]

Ply == <<"p", "l", "y">>

\* the registered handlers, by extension
file_extension_to_trianglemesh_read_function ==
    [ext \in {Ply} |-> "ReadTriangleMeshFromPLY"]

file_extension_to_trianglemesh_write_function ==
    [ext \in {Ply} |-> "WriteTriangleMeshToPLY"]

\* table.find(filename_ext): the handler found, or the table's end()
TableEnd == "end"

Find_DefaultPly(table, ext) == IF ext \in DOMAIN table THEN table[ext] ELSE table[Ply]

Find(table, ext) == IF ext \in DOMAIN table THEN table[ext] ELSE TableEnd

\* the mesh argument as the caller passes it
CallerMesh == "caller"

\* bool ReadTriangleMesh(const std::string &filename, TriangleMesh &mesh)
IO_ReadTriangleMesh ==
    /\ io_pc = "entry"
    /\ io_op = "read"
    /\ LET filename_ext == GetFileExtensionInLowerCase(io_filename)
           map_itr == Find(file_extension_to_trianglemesh_read_function, filename_ext)
       IN  IF filename_ext = << >> \/ map_itr = TableEnd
             THEN /\ io_warnings' = Append(io_warnings,
                                           "Read TriangleMesh failed: unknown file extension.")
                  /\ io_result' = <<FALSE>>
                  /\ UNCHANGED <<io_mesh, io_handlers>>
             ELSE /\ io_handlers' = Append(io_handlers, map_itr)
                  /\ \E ok \in BOOLEAN :
                       /\ io_result' = <<ok>>
                       /\ io_mesh' = IF ok THEN "parsed" ELSE "partial"
                  /\ UNCHANGED io_warnings
    /\ io_pc' = "done"
    /\ UNCHANGED <<mainVars, prepVars, viewerVars, io_op, io_filename>>

\* bool WriteTriangleMesh(const std::string &filename, const TriangleMesh &mesh, ...)
IO_WriteTriangleMesh ==
    /\ io_pc = "entry"
    /\ io_op = "write"
    /\ LET filename_ext == GetFileExtensionInLowerCase(io_filename)
           map_itr == Find(file_extension_to_trianglemesh_write_function, filename_ext)
       IN  IF filename_ext = << >> \/ map_itr = TableEnd
             THEN /\ io_warnings' = Append(io_warnings,
                                           "Write TriangleMesh failed: unknown file extension.")
                  /\ io_result' = <<FALSE>>
                  /\ UNCHANGED io_handlers
             ELSE /\ io_handlers' = Append(io_handlers, map_itr)
                  /\ \E ok \in BOOLEAN : io_result' = <<ok>>
                  /\ UNCHANGED io_warnings
    /\ io_pc' = "done"
    /\ UNCHANGED <<mainVars, prepVars, viewerVars, io_op, io_filename, io_mesh>>

\* no mesh I/O call is under way
IOParked ==
    /\ io_pc = "off"
    /\ io_op = "read"
    /\ io_filename = << >>
    /\ io_mesh = CallerMesh
    /\ io_result = << >>
    /\ io_handlers = << >>
    /\ io_warnings = << >>

(* ------------------ Visualizer callbacks (namespace three) -------------- *)
\* bound on the number of window events delivered to the Visualizer
MaxEvents == 2

\* int action of a key or button event
KeyActions == {"GLFW_PRESS", "GLFW_RELEASE", "GLFW_REPEAT"}
\* int mods: the modifier bits held
Mods == SUBSET {"GLFW_MOD_CONTROL", "GLFW_MOD_SHIFT"}
\* the keys KeyPressCallback has a case for, and one it has none for
Keys ==
    {"GLFW_KEY_ESCAPE", "GLFW_KEY_Q", "GLFW_KEY_H", "GLFW_KEY_R", "GLFW_KEY_P",
     "GLFW_KEY_PRINT_SCREEN", "GLFW_KEY_LEFT_BRACKET", "GLFW_KEY_RIGHT_BRACKET",
     "GLFW_KEY_EQUAL", "GLFW_KEY_MINUS", "GLFW_KEY_N", "GLFW_KEY_S", "GLFW_KEY_B",
     "GLFW_KEY_I", "GLFW_KEY_T", "GLFW_KEY_0", "GLFW_KEY_1", "GLFW_KEY_2",
     "GLFW_KEY_3", "GLFW_KEY_4", "GLFW_KEY_A"}
Buttons == {"GLFW_MOUSE_BUTTON_LEFT", "GLFW_MOUSE_BUTTON_RIGHT"}
\* cursor coordinates, scroll offsets and window sizes of the events
Coords == {0, 1}
ScrollOffsets == {-1, 1}
WindowSizes == {<<1, 1>>, <<2, 1>>}
\* the geometries the Visualizer shows
GeometryLists == {<<"GEOMETRY_POINTCLOUD">>, <<"GEOMETRY_IMAGE", "GEOMETRY_POINTCLOUD">>}

\* a Visualizer whose window has not been created; view_control_ is the call
\* the view control received last, renders and geometry_updates count the
\* Render() and UpdateGeometry() calls made
NoWindow ==
    [window_                 |-> "none",
     should_close            |-> FALSE,
     is_redraw_required_     |-> TRUE,
     mouse_control_          |-> [is_mouse_left_button_down |-> FALSE,
                                  is_control_key_down       |-> FALSE,
                                  mouse_position_x          |-> 0,
                                  mouse_position_y          |-> 0],
     view_control_           |-> <<"none">>,
     pointcloud_render_mode_ |-> [show_normal |-> FALSE, point_size |-> 0,
                                  point_color_option |-> "POINTCOLOR_DEFAULT"],
     mesh_render_mode_       |-> [flat_shade |-> FALSE, show_back_face |-> FALSE,
                                  mesh_color_option |-> "TRIANGLEMESH_DEFAULT"],
     image_render_mode_      |-> [nearest |-> FALSE, stretch |-> FALSE],
     global_color_map        |-> "default",
     geometry_ptrs_          |-> << >>,
     calls                   |-> << >>,
     renders                 |-> 0,
     geometry_updates        |-> 0]

\* Render()
Render(v) == [v EXCEPT !.renders = @ + 1]
\* UpdateGeometry()
UpdateGeometry(v) == [v EXCEPT !.geometry_updates = @ + 1]
\* pointcloud_render_mode_.IsNormalShown()
IsNormalShown(v) == v.pointcloud_render_mode_.show_normal

\* void Visualizer::WindowRefreshCallback(GLFWwindow *window)
WindowRefreshCallback_KeepsFlag(v) ==
    IF v.is_redraw_required_ THEN Render(v) ELSE v

WindowRefreshCallback(v) ==
    IF v.is_redraw_required_
      THEN [Render(v) EXCEPT !.is_redraw_required_ = FALSE]
      ELSE v

\* UpdateGeometry() once for each geometry of type GEOMETRY_IMAGE
RECURSIVE UpdateImages(_, _)
UpdateImages(v, ptrs) ==
    IF ptrs = << >> THEN v
    ELSE UpdateImages(IF Head(ptrs) = "GEOMETRY_IMAGE" THEN UpdateGeometry(v) ELSE v,
                      Tail(ptrs))

\* void Visualizer::WindowResizeCallback(GLFWwindow *window, int w, int h)
WindowResizeCallback(v, w, h) ==
    UpdateImages([v EXCEPT !.view_control_ = <<"ChangeWindowSize", w, h>>,
                           !.is_redraw_required_ = TRUE],
                 v.geometry_ptrs_)

\* void Visualizer::MouseMoveCallback(GLFWwindow *window, double x, double y)
MouseMoveCallback(v, x, y) ==
    LET m  == v.mouse_control_
        dx == m.mouse_position_x - x
        dy == y - m.mouse_position_y
        moved == IF m.is_mouse_left_button_down
                   THEN IF m.is_control_key_down
                          THEN [v EXCEPT !.view_control_ = <<"Translate", dx, dy>>]
                          ELSE [v EXCEPT !.view_control_ = <<"Rotate", dx, dy>>]
                   ELSE v
    IN  [moved EXCEPT !.mouse_control_.mouse_position_x = x,
                      !.mouse_control_.mouse_position_y = y,
                      !.is_redraw_required_ = TRUE]

\* void Visualizer::MouseScrollCallback(GLFWwindow* window, double x, double y)
MouseScrollCallback(v, x, y) ==
    [v EXCEPT !.view_control_ = <<"Scale", y, 0>>, !.is_redraw_required_ = TRUE]

\* void Visualizer::MouseButtonCallback(GLFWwindow* window, int button, int action, int mods)
MouseButtonCallback(v, button, action, mods) ==
    IF button = "GLFW_MOUSE_BUTTON_LEFT"
      THEN IF action = "GLFW_PRESS"
             THEN [v EXCEPT !.mouse_control_.is_mouse_left_button_down = TRUE,
                            !.mouse_control_.is_control_key_down =
                                ("GLFW_MOD_CONTROL" \in mods)]
             ELSE [v EXCEPT !.mouse_control_.is_mouse_left_button_down = FALSE,
                            !.mouse_control_.is_control_key_down = FALSE]
      ELSE v

\* the options the keys 0 .. 4 select
DigitKeys == {"GLFW_KEY_0", "GLFW_KEY_1", "GLFW_KEY_2", "GLFW_KEY_3", "GLFW_KEY_4"}
MeshColorOption ==
    [GLFW_KEY_0 |-> "TRIANGLEMESH_DEFAULT", GLFW_KEY_1 |-> "TRIANGLEMESH_COLOR",
     GLFW_KEY_2 |-> "TRIANGLEMESH_X", GLFW_KEY_3 |-> "TRIANGLEMESH_Y",
     GLFW_KEY_4 |-> "TRIANGLEMESH_Z"]
GlobalColorMap ==
    [GLFW_KEY_0 |-> "COLORMAP_GRAY", GLFW_KEY_1 |-> "COLORMAP_JET",
     GLFW_KEY_2 |-> "COLORMAP_SUMMER", GLFW_KEY_3 |-> "COLORMAP_WINTER"]
PointColorOption ==
    [GLFW_KEY_0 |-> "POINTCOLOR_DEFAULT", GLFW_KEY_1 |-> "POINTCOLOR_COLOR",
     GLFW_KEY_2 |-> "POINTCOLOR_X", GLFW_KEY_3 |-> "POINTCOLOR_Y",
     GLFW_KEY_4 |-> "POINTCOLOR_Z"]

\* case GLFW_KEY_0: ... case GLFW_KEY_4:
DigitKey(v, key, mods) ==
    IF "GLFW_MOD_CONTROL" \in mods
      THEN UpdateGeometry([v EXCEPT !.mesh_render_mode_.mesh_color_option =
                                        MeshColorOption[key]])
      ELSE IF "GLFW_MOD_SHIFT" \in mods
             THEN IF key = "GLFW_KEY_4"
                    THEN v
                    ELSE UpdateGeometry([v EXCEPT !.global_color_map = GlobalColorMap[key]])
             ELSE UpdateGeometry([v EXCEPT !.pointcloud_render_mode_.point_color_option =
                                               PointColorOption[key]])

\* pointcloud_render_mode_.ChangePointSize(delta) and the update that follows it
ChangePointSize(v, delta) ==
    LET sized == [v EXCEPT !.pointcloud_render_mode_.point_size = @ + delta]
    IN  IF IsNormalShown(sized) THEN UpdateGeometry(sized) ELSE sized

\* switch (key) { ... }
KeySwitch(v, key, mods) ==
    CASE key \in {"GLFW_KEY_ESCAPE", "GLFW_KEY_Q"} -> [v EXCEPT !.should_close = TRUE]
      [] key = "GLFW_KEY_H" -> [v EXCEPT !.calls = Append(@, "PrintVisualizerHelp")]
      [] key = "GLFW_KEY_R" -> [v EXCEPT !.view_control_ = <<"ResetViewPoint", 0, 0>>]
      [] key \in {"GLFW_KEY_P", "GLFW_KEY_PRINT_SCREEN"} ->
             [v EXCEPT !.calls = Append(@, "CaptureScreen")]
      [] key = "GLFW_KEY_LEFT_BRACKET" ->
             [v EXCEPT !.view_control_ = <<"ChangeFieldOfView", -1, 0>>]
      [] key = "GLFW_KEY_RIGHT_BRACKET" ->
             [v EXCEPT !.view_control_ = <<"ChangeFieldOfView", 1, 0>>]
      [] key = "GLFW_KEY_EQUAL" -> ChangePointSize(v, 1)
      [] key = "GLFW_KEY_MINUS" -> ChangePointSize(v, -1)
      [] key = "GLFW_KEY_N" ->
             UpdateGeometry([v EXCEPT !.pointcloud_render_mode_.show_normal = ~@])
      [] key = "GLFW_KEY_S" ->
             UpdateGeometry([v EXCEPT !.mesh_render_mode_.flat_shade = ~@])
      [] key = "GLFW_KEY_B" -> [v EXCEPT !.mesh_render_mode_.show_back_face = ~@]
      [] key = "GLFW_KEY_I" ->
             UpdateGeometry([v EXCEPT !.image_render_mode_.nearest = ~@])
      [] key = "GLFW_KEY_T" ->
             UpdateGeometry([v EXCEPT !.image_render_mode_.stretch = ~@])
      [] key \in DigitKeys -> DigitKey(v, key, mods)
      [] OTHER -> v

\* void Visualizer::KeyPressCallback(GLFWwindow *window, int key, int scancode,
\*                                   int action, int mods)
KeyPressCallback(v, key, action, mods) ==
    IF action = "GLFW_RELEASE"
      THEN v
      ELSE [KeySwitch(v, key, mods) EXCEPT !.is_redraw_required_ = TRUE]

\* void Visualizer::WindowCloseCallback(GLFWwindow *window)
WindowCloseCallback(v) == v

\* the window system delivers one event to the callback cbname
Deliver(cbname, action, v) ==
    /\ visualizer.window_ = "open"
    /\ events < MaxEvents
    /\ visualizer' = v
    /\ last_callback' = [cb |-> cbname, action |-> action]
    /\ events' = events + 1
    /\ UNCHANGED <<mainVars, prepVars, ioVars>>

Viewer_WindowRefresh ==
    Deliver("WindowRefreshCallback", "none", WindowRefreshCallback(visualizer))

Viewer_WindowResize ==
    \E size \in WindowSizes :
        Deliver("WindowResizeCallback", "none",
                WindowResizeCallback(visualizer, size[1], size[2]))

Viewer_MouseMove ==
    \E x \in Coords, y \in Coords :
        Deliver("MouseMoveCallback", "none", MouseMoveCallback(visualizer, x, y))

Viewer_MouseScroll ==
    \E y \in ScrollOffsets :
        Deliver("MouseScrollCallback", "none", MouseScrollCallback(visualizer, 0, y))

Viewer_MouseButton ==
    \E button \in Buttons, action \in KeyActions \ {"GLFW_REPEAT"}, mods \in Mods :
        Deliver("MouseButtonCallback", action,
                MouseButtonCallback(visualizer, button, action, mods))

Viewer_KeyPress ==
    \E key \in Keys, action \in KeyActions, mods \in Mods :
        Deliver("KeyPressCallback", action,
                KeyPressCallback(visualizer, key, action, mods))

Viewer_WindowClose ==
    Deliver("WindowCloseCallback", "none", WindowCloseCallback(visualizer))

\* no Visualizer window exists
ViewerParked ==
    /\ visualizer = NoWindow
    /\ last_callback = [cb |-> "none", action |-> "none"]
    /\ events = 0

(* --------------------------- engine set-up ------------------------------ *)
\* materials_.lit_material / unlit_material before renderer->AddMaterialInstance
NoInstances == [lit_material |-> NullPtr, unlit_material |-> NullPtr]

\* renderer->AddMaterialInstance(lit_handle), (unlit_handle): two instances of
\* the default materials, their parameters not set yet
AddMaterialInstances ==
    [lit_material   |-> [kind |-> "instance", of |-> "defaultLit.filamat", params |-> << >>],
     unlit_material |-> [kind |-> "instance", of |-> "defaultUnlit.filamat", params |-> << >>]]

\* SetMaterialProperties: the lit instance gets the seven scalars and the nine
\* maps of materials_, the unlit instance the base colour and the albedo map
SetMaterialProperties(inst, m) ==
    [lit_material   |-> [inst.lit_material EXCEPT !.params =
                            <<[f \in DOMAIN m.properties \ {"point_size"} |-> m.properties[f]],
                              m.maps>>],
     unlit_material |-> [inst.unlit_material EXCEPT !.params =
                            <<m.properties.base_color, m.maps.albedo_map>>]]

\* the scene renderer->CreateScene() makes
EmptyScene == [geometries |-> {}, ibl |-> "none", sky |-> "none"]

\* ibl_name and sky_name: from argv[2] when given, the hall maps otherwise
IblName(n) == IF n > 2 THEN "argv[2]_ibl.ktx" ELSE "hall_ibl.ktx"

SkyName(n) == IF n > 2 THEN "argv[2]_skybox.ktx" ELSE "hall_skybox.ktx"

\* SetupLighting, then scene->AddGeometry(*g3, kNormalsMaterial)
SetupScene(sc, g, n) ==
    [geometries |-> sc.geometries \cup {[geometry |-> g, material |-> "kNormalsMaterial"]},
     ibl        |-> IblName(n),
     sky        |-> SkyName(n)]

(* ------------------------------ initial state --------------------------- *)
MainInit ==
    /\ argc \in 1 .. 3
    /\ proc = "running"
    /\ mainpc = "start"
    /\ exitcode = << >>
    /\ geometry_type = FALSE
    /\ mesh = NullPtr
    /\ mesh_success = FALSE
    /\ cloud = NullPtr
    /\ geometry = NullPtr
    /\ geom = NullPtr
    /\ meshOutcome = "none"
    /\ cloudOutcome = "none"
    /\ i = 0
    /\ camPose = <<"none">>
    /\ calls = << >>
    /\ returned = {}
    /\ buffer = "none"
    /\ read_pixels_started = FALSE
    /\ request = NullPtr
    /\ observed_done = FALSE
    /\ began = FALSE
    /\ pending = {}
    /\ cbpc = "idle"
    /\ cb = NoCb
    /\ flagged = {}
    /\ cbdone = {}
    /\ files = {}
    /\ writeFailed = {}
    /\ errors = {}
    /\ ops = << >>
    /\ writeLog = << >>
    /\ material_instances = NoInstances
    /\ scene = EmptyScene

\* the headless renderer starts; no other call is under way
Init == MainInit /\ PrepParked /\ IOParked /\ ViewerParked

\* the control thread is at pc and the process is alive
At(pc) == proc = "running" /\ mainpc = pc

(* -------------------------------- main --------------------------------- *)
\* if(argc < 2) return -1; otherwise initialise the engine and go on to load
Main_CheckArgs_OffByOne ==
    /\ At("start")
    /\ IF argc < 1
         THEN /\ mainpc' = "returned"
              /\ exitcode' = <<-1>>
              /\ material_instances' = material_instances
         ELSE /\ mainpc' = "load"
              /\ exitcode' = exitcode
              /\ material_instances' = AddMaterialInstances
    /\ UNCHANGED <<prepVars, ioVars, viewerVars, scene, argc, proc, loadVars, geom, orbitVars,
                   snapVars, engineVars>>

Main_CheckArgs ==
    /\ At("start")
    /\ IF argc < 2
         THEN /\ mainpc' = "returned"
              /\ exitcode' = <<-1>>
              /\ material_instances' = material_instances
         ELSE /\ mainpc' = "load"
              /\ exitcode' = exitcode
              /\ material_instances' = AddMaterialInstances
    /\ UNCHANGED <<prepVars, ioVars, viewerVars, scene, argc, proc, loadVars, geom, orbitVars,
                   snapVars, engineVars>>

(* ----------------------------- LoadGeometry ---------------------------- *)
\* geometry = nullptr; geometry_type = ReadFileGeometryType(path); mesh = make_shared
LG_Classify ==
    /\ At("load")
    /\ geometry' = NullPtr
    /\ geometry_type' \in BOOLEAN
    /\ mesh' = EmptyMesh
    /\ mesh_success' = FALSE
    /\ mainpc' = "lg_read_mesh"
    /\ UNCHANGED <<sideVars, argc, proc, exitcode, cloud, geom, meshOutcome, cloudOutcome,
                   orbitVars, snapVars, engineVars>>

\* if (geometry_type & CONTAINS_TRIANGLES) try { mesh_success = ReadTriangleMesh }
\* catch (...) { mesh_success = false }
LG_ReadMesh_NoCatch ==
    /\ At("lg_read_mesh")
    /\ IF geometry_type
         THEN \E outcome \in {"true", "false", "throw"} :
                /\ meshOutcome' = outcome
                /\ mesh' \in (IF outcome = "true" THEN ParsedMeshes ELSE {mesh})
                /\ mesh_success' = (outcome = "true")
                /\ IF outcome = "throw"
                     THEN proc' = "aborted" /\ mainpc' = mainpc
                     ELSE proc' = proc /\ mainpc' = "lg_post_mesh"
         ELSE UNCHANGED <<meshOutcome, mesh, mesh_success, proc>> /\ mainpc' = "lg_post_mesh"
    /\ UNCHANGED <<sideVars, argc, exitcode, geometry_type, cloud, geometry, geom,
                   cloudOutcome, orbitVars, snapVars, engineVars>>

LG_ReadMesh ==
    /\ At("lg_read_mesh")
    /\ IF geometry_type
         THEN \E outcome \in {"true", "false", "throw"} :
                /\ meshOutcome' = outcome
                /\ mesh' \in (IF outcome = "true" THEN ParsedMeshes ELSE {mesh})
                /\ mesh_success' = (outcome = "true")
         ELSE UNCHANGED <<meshOutcome, mesh, mesh_success>>
    /\ mainpc' = "lg_post_mesh"
    /\ UNCHANGED <<sideVars, argc, proc, exitcode, geometry_type, cloud, geometry, geom,
                   cloudOutcome, orbitVars, snapVars, engineVars>>

\* mesh->ComputeVertexNormals(); if (vertex_colors_.empty()) PaintUniformColor
MassageMesh(m) ==
    LET n == ComputeVertexNormals(m)
    IN  IF n.vertex_colors = 0 THEN PaintUniformColor(n) ELSE n

\* if (mesh_success) { zero triangles: mesh.reset(); else massage, geometry = mesh }
\* else { mesh.reset() }
LG_PostMesh ==
    /\ At("lg_post_mesh")
    /\ IF mesh_success
         THEN /\ IF mesh.triangles = 0
                   THEN mesh' = NullPtr /\ geometry' = geometry
                   ELSE mesh' = MassageMesh(mesh) /\ geometry' = mesh'
              /\ mainpc' = "lg_uvs"
         ELSE /\ mesh' = NullPtr
              /\ geometry' = geometry
              /\ mainpc' = "lg_read_cloud"
    /\ UNCHANGED <<sideVars, argc, proc, exitcode, geometry_type, mesh_success, cloud, geom,
                   meshOutcome, cloudOutcome, orbitVars, snapVars, engineVars>>

\* mesh->triangle_uvs_.resize(mesh->triangles_.size() * 3, {0.0, 0.0})
SynthUvs_OnePerTriangle(m) ==
    [m EXCEPT !.triangle_uvs = m.triangles,
              !.uvs_src = IF m.triangle_uvs = 0 THEN "synthesized" ELSE "resized"]

SynthUvs(m) ==
    [m EXCEPT !.triangle_uvs = 3 * m.triangles,
              !.uvs_src = IF m.triangle_uvs = 0 THEN "synthesized" ELSE "resized"]

\* if (!mesh->HasTriangleUvs()) resize: mesh is dereferenced whether or not it was
\* reset; through a null pointer the behaviour is undefined (a fault, or the
\* call reads garbage and control goes on)
LG_Uvs ==
    /\ At("lg_uvs")
    /\ IF mesh = NullPtr
         THEN /\ \E fault \in BOOLEAN :
                   IF fault THEN proc' = "crashed" /\ mainpc' = mainpc
                            ELSE proc' = proc /\ mainpc' = "lg_read_cloud"
              /\ UNCHANGED <<mesh, geometry>>
         ELSE /\ mesh' = IF HasTriangleUvs(mesh) THEN mesh ELSE SynthUvs(mesh)
              /\ geometry' = mesh'
              /\ proc' = proc
              /\ mainpc' = "lg_read_cloud"
    /\ UNCHANGED <<sideVars, argc, exitcode, geometry_type, mesh_success, cloud, geom,
                   meshOutcome, cloudOutcome, orbitVars, snapVars, engineVars>>

\* if (!cloud->HasNormals()) EstimateNormals(); cloud->NormalizeNormals()
MassageCloud_NoNormalize(c) == IF HasNormals(c) THEN c ELSE EstimateNormals(c)

MassageCloud(c) ==
    NormalizeNormals(IF HasNormals(c) THEN c ELSE EstimateNormals(c))

\* if (!geometry) { try ReadPointCloud catch -> false; success: geometry = cloud }
LG_ReadCloud ==
    /\ At("lg_read_cloud")
    /\ IF geometry = NullPtr
         THEN \E outcome \in {"true", "false", "throw"} :
                /\ cloudOutcome' = outcome
                /\ IF outcome = "true"
                     THEN \E c \in ParsedClouds :
                            cloud' = MassageCloud(c) /\ geometry' = cloud'
                     ELSE cloud' = NullPtr /\ geometry' = geometry
         ELSE UNCHANGED <<cloudOutcome, cloud, geometry>>
    /\ mainpc' = "lg_return"
    /\ UNCHANGED <<sideVars, argc, proc, exitcode, geometry_type, mesh, mesh_success, geom,
                   meshOutcome, orbitVars, snapVars, engineVars>>

\* return geometry;  (auto geom = LoadGeometry(argv[1]))
LG_Return ==
    /\ At("lg_return")
    /\ geom' = geometry
    /\ mainpc' = "check_geom"
    /\ UNCHANGED <<sideVars, argc, proc, exitcode, loadVars, orbitVars, snapVars, engineVars>>

\* if(!geom) return -1;
Main_CheckGeom ==
    /\ At("check_geom")
    /\ IF geom = NullPtr
         THEN mainpc' = "returned" /\ exitcode' = <<-1>>
         ELSE mainpc' = "setup" /\ exitcode' = exitcode
    /\ UNCHANGED <<sideVars, argc, proc, loadVars, geom, orbitVars, snapVars, engineVars>>

\* PrepareGeometry(geom, *renderer); SetMaterialProperties; SetupLighting;
\* scene->AddGeometry; cam->LookAt(center, eye, up) for the initial pose; int i = 0
Main_Setup ==
    /\ At("setup")
    /\ LET st == PrepareGeometry(geom, [materials |-> materials_, textures |-> textures])
       IN  /\ materials_' = st.materials
           /\ textures' = st.textures
           /\ materials_once' = st.materials
           /\ material_instances' = SetMaterialProperties(material_instances, st.materials)
    /\ scene' = SetupScene(scene, geom, argc)
    /\ prep_geom' = geom
    /\ prep_calls' = prep_calls + 1
    /\ camPose' = <<"initial">>
    /\ i' = 0
    /\ mainpc' = "loop"
    /\ UNCHANGED <<ioVars, viewerVars, argc, proc, exitcode, loadVars, geom, calls, returned,
                   snapVars, engineVars>>

(* ------------------------------ orbit loop ----------------------------- *)
\* the value ++i leaves in i
NextIndex_SkipOne(k) == k + 2

NextIndex(k) == k + 1

\* for(int i = 0; i < 360; ++i) : the loop test; after the loop, return 0
Main_LoopTest ==
    /\ At("loop")
    /\ IF i < NumFrames
         THEN mainpc' = "lookat" /\ exitcode' = exitcode
         ELSE mainpc' = "returned" /\ exitcode' = <<0>>
    /\ UNCHANGED <<sideVars, argc, proc, loadVars, geom, orbitVars, snapVars, engineVars>>

\* eye = center + (dx, dy, dz) of azimuth i; cam->LookAt(center, eye, up)
Main_LookAt_Rebinds ==
    /\ At("lookat")
    /\ camPose' = <<"orbit", i>>
    /\ mainpc' = "call"
    /\ LET st == PrepareGeometry(geom, [materials |-> materials_, textures |-> textures])
       IN  materials_' = st.materials /\ textures' = st.textures
    /\ UNCHANGED <<prep_geom, prep_calls, materials_once, ioVars, viewerVars, sceneVars, argc, proc,
                   exitcode, loadVars, geom, i, calls, returned, snapVars, engineVars>>

Main_LookAt ==
    /\ At("lookat")
    /\ camPose' = <<"orbit", i>>
    /\ mainpc' = "call"
    /\ UNCHANGED <<sideVars, argc, proc, exitcode, loadVars, geom, i, calls, returned,
                   snapVars, engineVars>>

\* fname = fmt::format(..., i); RenderSnapshot(*renderer, view, swap_chain, fname)
Main_CallSnapshot ==
    /\ At("call")
    /\ calls' = Append(calls, <<i, Filename(i), camPose>>)
    /\ mainpc' = "rs_enter"
    /\ UNCHANGED <<sideVars, argc, proc, exitcode, loadVars, geom, i, camPose, returned,
                   snapVars, engineVars>>

(* ---------------------------- RenderSnapshot --------------------------- *)
\* the filename argument of the running RenderSnapshot call
FilenameArg == calls[Len(calls)][2]

\* the control thread is inside RenderSnapshot, its locals alive
InSnapshot ==
    mainpc \in {"rs_begin", "rs_render", "rs_end", "rs_wait", "rs_free", "rs_ret"}

\* buffer = malloc(buffer_size); read_pixels_started = false;
\* RenderRequest request; request.output_filename = filename
RS_Enter ==
    /\ At("rs_enter")
    /\ buffer' = "allocated"
    /\ read_pixels_started' = FALSE
    /\ request' = [frame_done |-> FALSE, output_filename |-> FilenameArg]
    /\ observed_done' = FALSE
    /\ began' = FALSE
    /\ ops' = << >>
    /\ mainpc' = "rs_begin"
    /\ UNCHANGED <<sideVars, argc, proc, exitcode, loadVars, geom, orbitVars, engineVars>>

\* where control goes after beginFrame returned b: into the if body, or past it
AfterBegin_SkipEnd(b) == IF b THEN "rs_render" ELSE "rs_wait"

AfterBegin(b) == IF b THEN "rs_render" ELSE "rs_end"

\* if (renderer.GetNative()->beginFrame(swap_chain)) : the engine accepts or declines
RS_BeginFrame ==
    /\ At("rs_begin")
    /\ began' \in BOOLEAN
    /\ ops' = Append(ops, "beginFrame")
    /\ mainpc' = AfterBegin(began')
    /\ UNCHANGED <<sideVars, argc, proc, exitcode, loadVars, geom, orbitVars, buffer,
                   read_pixels_started, request, observed_done, engineVars>>

\* the engine calls of the if body, in order: render, then readPixels unless started
BegunFrameCalls_ReadFirst(started) ==
    IF started THEN <<"render">> ELSE <<"readPixels", "render">>

BegunFrameCalls(started) ==
    IF started THEN <<"render">> ELSE <<"render", "readPixels">>

\* render(view); if (!read_pixels_started) { read_pixels_started = true; readPixels(pd) }
RS_Render ==
    /\ At("rs_render")
    /\ IF ~read_pixels_started
         THEN read_pixels_started' = TRUE /\ pending' = pending \cup {i}
         ELSE UNCHANGED <<read_pixels_started, pending>>
    /\ ops' = ops \o BegunFrameCalls(read_pixels_started)
    /\ mainpc' = "rs_end"
    /\ UNCHANGED <<sideVars, argc, proc, exitcode, loadVars, geom, orbitVars, buffer, request,
                   observed_done, began, cbpc, cb, flagged, cbdone, files,
                   writeFailed, errors, writeLog>>

\* renderer.GetNative()->endFrame();
RS_EndFrame ==
    /\ At("rs_end")
    /\ ops' = Append(ops, "endFrame")
    /\ mainpc' = "rs_wait"
    /\ UNCHANGED <<sideVars, argc, proc, exitcode, loadVars, geom, orbitVars, buffer,
                   read_pixels_started, request, observed_done, began, engineVars>>

\* the test of while (!request.frame_done): does the loop exit on this value?
WaitOver_Always(done) == TRUE

WaitOver_Negated(done) == ~done

WaitOver(done) == done

\* while (!request.frame_done) { LogInfo; sleep_for(1s); }
RS_Wait ==
    /\ At("rs_wait")
    /\ observed_done' = request.frame_done
    /\ mainpc' = IF WaitOver(request.frame_done) THEN "rs_free" ELSE "rs_wait"
    /\ UNCHANGED <<sideVars, argc, proc, exitcode, loadVars, geom, orbitVars, buffer,
                   read_pixels_started, request, began, ops, engineVars>>

\* free(buffer);
RS_Free ==
    /\ At("rs_free")
    /\ buffer' = "freed"
    /\ mainpc' = "rs_ret"
    /\ UNCHANGED <<sideVars, argc, proc, exitcode, loadVars, geom, orbitVars,
                   read_pixels_started, request, observed_done, began, ops, engineVars>>

\* return from RenderSnapshot (request is destroyed); ++i
RS_Return ==
    /\ At("rs_ret")
    /\ request' = NullPtr
    /\ returned' = returned \cup {i}
    /\ i' = NextIndex(i)
    /\ mainpc' = "loop"
    /\ UNCHANGED <<sideVars, argc, proc, exitcode, loadVars, geom, camPose, calls, buffer,
                   read_pixels_started, observed_done, began, ops, engineVars>>

\* main has returned: the process exits, and its threads with it
Main_Exit ==
    /\ At("returned")
    /\ proc' = "exited"
    /\ UNCHANGED <<sideVars, argc, mainpc, exitcode, loadVars, geom, orbitVars, snapVars, engineVars>>

(* ------------------ engine thread: ReadPixelsCallback ------------------ *)
\* the RenderRequest that the callback of orbit index f points to still exists
RequestAlive(f) == InSnapshot /\ i = f /\ request # NullPtr

\* the pixel buffer handed to the readback of orbit index f is still allocated
BufferAlive(f) == InSnapshot /\ i = f /\ buffer = "allocated"

\* what a read of rr->output_filename can yield: the field while the request
\* lives; through a dangling rr the stale bytes, nothing, garbage, or the
\* request that now occupies the same stack slot
ReadFilename(f) ==
    IF RequestAlive(f)
      THEN {request.output_filename}
      ELSE {Filename(f), EmptyName, GarbageName}
             \cup (IF request # NullPtr THEN {request.output_filename} ELSE {})

\* whether an access through a pointer can fault
MayFault(alive) == IF alive THEN {FALSE} ELSE BOOLEAN

\* the engine completes a readback and invokes the callback, with the full
\* buffer or with size zero
CB_Invoke ==
    /\ proc = "running"
    /\ cbpc = "idle"
    /\ \E f \in pending :
         /\ pending' = pending \ {f}
         /\ \E size \in {0, BufferSize} :
              cb' = [frame |-> f, buffer_size |-> size, checked |-> << >>]
    /\ cbpc' = "set_done"
    /\ UNCHANGED <<sideVars, argc, mainpc, proc, exitcode, loadVars, geom, orbitVars, snapVars,
                   flagged, cbdone, files, writeFailed, errors, writeLog>>

\* auto rr = static_cast<RenderRequest*>(user); rr->frame_done = true;
CB_SetDone ==
    /\ proc = "running"
    /\ cbpc = "set_done"
    /\ flagged' = flagged \cup {cb.frame}
    /\ \E fault \in MayFault(RequestAlive(cb.frame)) :
         IF fault
           THEN proc' = "crashed" /\ UNCHANGED <<request, cbpc>>
           ELSE /\ proc' = proc
                /\ cbpc' = "check"
                /\ request' = IF request # NullPtr
                                THEN [request EXCEPT !.frame_done = TRUE]
                                ELSE request
    /\ UNCHANGED <<sideVars, argc, mainpc, exitcode, loadVars, geom, orbitVars, buffer,
                   read_pixels_started, observed_done, began, ops, pending, cb, cbdone,
                   files, writeFailed, errors, writeLog>>

\* the branch taken on (!rr->output_filename.empty() && buffer_size > 0)
CheckBranch_Or(name, size) ==
    IF name # EmptyName \/ size > 0 THEN "copy" ELSE "log_error"

CheckBranch(name, size) ==
    IF name # EmptyName /\ size > 0 THEN "copy" ELSE "log_error"

\* if (!rr->output_filename.empty() && buffer_size > 0) ... else ...
CB_Check ==
    /\ proc = "running"
    /\ cbpc = "check"
    /\ \E fault \in MayFault(RequestAlive(cb.frame)) :
         IF fault
           THEN proc' = "crashed" /\ UNCHANGED <<cbpc, cb>>
           ELSE /\ proc' = proc
                /\ \E name \in ReadFilename(cb.frame) :
                     /\ cb' = [cb EXCEPT !.checked = <<name>>]
                     /\ cbpc' = CheckBranch(name, cb.buffer_size)
    /\ UNCHANGED <<sideVars, argc, mainpc, exitcode, loadVars, geom, orbitVars, snapVars,
                   pending, flagged, cbdone, files, writeFailed, errors, writeLog>>

\* image->data_ = std::vector<uint8_t>(buffer, buffer + buffer_size)
CB_Copy ==
    /\ proc = "running"
    /\ cbpc = "copy"
    /\ \E fault \in MayFault(BufferAlive(cb.frame)) :
         IF fault
           THEN proc' = "crashed" /\ cbpc' = cbpc
           ELSE proc' = proc /\ cbpc' = "write"
    /\ UNCHANGED <<sideVars, argc, mainpc, exitcode, loadVars, geom, orbitVars, snapVars,
                   pending, cb, flagged, cbdone, files, writeFailed, errors, writeLog>>

\* if (!io::WriteImage(rr->output_filename, *image)) LogWarning(...); return
CB_Write ==
    /\ proc = "running"
    /\ cbpc = "write"
    /\ \E fault \in MayFault(RequestAlive(cb.frame)) :
         IF fault
           THEN /\ proc' = "crashed"
                /\ UNCHANGED <<cbpc, cb, cbdone, files, writeFailed, writeLog>>
           ELSE /\ proc' = proc
                /\ \E name \in ReadFilename(cb.frame), ok \in BOOLEAN :
                     /\ files' = IF ok THEN files \cup {name} ELSE files
                     /\ writeFailed' = IF ok THEN writeFailed
                                             ELSE writeFailed \cup {cb.frame}
                /\ writeLog' = Append(writeLog, cb.frame)
                /\ cbdone' = cbdone \cup {cb.frame}
                /\ cbpc' = "idle"
                /\ cb' = NoCb
    /\ UNCHANGED <<sideVars, argc, mainpc, exitcode, loadVars, geom, orbitVars, snapVars,
                   pending, flagged, errors>>

\* "LogError throws an exception" (the comment in LoadGeometry)
LogErrorThrows == TRUE

\* utility::LogError(...): logs, then throws; the exception leaves the callback
\* and the process aborts
CB_LogError ==
    /\ proc = "running"
    /\ cbpc = "log_error"
    /\ errors' = errors \cup {cb.frame}
    /\ IF LogErrorThrows
         THEN cbpc' = "threw" /\ proc' = "aborted" /\ UNCHANGED <<cb, cbdone>>
         ELSE cbpc' = "idle" /\ proc' = proc /\ cb' = NoCb
              /\ cbdone' = cbdone \cup {cb.frame}
    /\ UNCHANGED <<sideVars, argc, mainpc, exitcode, loadVars, geom, orbitVars, snapVars,
                   pending, flagged, files, writeFailed, writeLog>>

(* --------------------------- specifications ---------------------------- *)
MainThread ==
    \/ Main_CheckArgs
    \/ LG_Classify
    \/ LG_ReadMesh
    \/ LG_PostMesh
    \/ LG_Uvs
    \/ LG_ReadCloud
    \/ LG_Return
    \/ Main_CheckGeom
    \/ Main_Setup
    \/ Main_LoopTest
    \/ Main_LookAt
    \/ Main_CallSnapshot
    \/ RS_Enter
    \/ RS_BeginFrame
    \/ RS_Render
    \/ RS_EndFrame
    \/ RS_Wait
    \/ RS_Free
    \/ RS_Return
    \/ Main_Exit

EngineThread ==
    \/ CB_Invoke
    \/ CB_SetDone
    \/ CB_Check
    \/ CB_Copy
    \/ CB_Write
    \/ CB_LogError

Next == MainThread \/ EngineThread

Spec == Init /\ [][Next]_vars

\* both threads keep running while they can take a step
FairSpec == Spec /\ WF_vars(MainThread) /\ WF_vars(EngineThread)

\* the headless renderer not started
MainParked == MainInit /\ argc = 1

\* PrepareGeometry on any of the geometries, from a fresh or a used materials_
PrepInit ==
    /\ MainParked
    /\ IOParked
    /\ ViewerParked
    /\ prep_geom \in PrepGeometries
    /\ \E st \in {[materials |-> FreshMaterials, textures |-> << >>],
                  [materials |-> PriorMaterials, textures |-> << <<"prior", "image">> >>]} :
         /\ materials_ = st.materials
         /\ textures = st.textures
         /\ materials_once = st.materials
    /\ prep_calls = 0

PrepNext == Prep_PrepareGeometry

PrepSpec == PrepInit /\ [][PrepNext]_vars

\* one call of ReadTriangleMesh or of WriteTriangleMesh with any filename
IOInit ==
    /\ MainParked
    /\ PrepParked
    /\ ViewerParked
    /\ io_pc = "entry"
    /\ io_op \in {"read", "write"}
    /\ io_filename \in Names
    /\ io_mesh = CallerMesh
    /\ io_result = << >>
    /\ io_handlers = << >>
    /\ io_warnings = << >>

IONext == IO_ReadTriangleMesh \/ IO_WriteTriangleMesh

IOSpec == IOInit /\ [][IONext]_vars

\* a Visualizer with its window open, any of the geometry lists, redraw pending or not
ViewerInit ==
    /\ MainParked
    /\ PrepParked
    /\ IOParked
    /\ \E ptrs \in GeometryLists, redraw \in BOOLEAN :
         visualizer = [NoWindow EXCEPT !.window_ = "open",
                                       !.geometry_ptrs_ = ptrs,
                                       !.is_redraw_required_ = redraw]
    /\ last_callback = [cb |-> "none", action |-> "none"]
    /\ events = 0

ViewerNext ==
    \/ Viewer_WindowRefresh
    \/ Viewer_WindowResize
    \/ Viewer_MouseMove
    \/ Viewer_MouseScroll
    \/ Viewer_MouseButton
    \/ Viewer_KeyPress
    \/ Viewer_WindowClose

ViewerSpec == ViewerInit /\ [][ViewerNext]_vars

(* ------------------------------ properties ----------------------------- *)
\* LoadGeometry has reached its return statement (or has returned)
LoadReturned ==
    /\ argc >= 2
    /\ mainpc \notin {"start", "load", "lg_read_mesh", "lg_post_mesh", "lg_uvs",
                      "lg_read_cloud"}

\* LoadGeometry is over: it returned, or the process died inside it
LoadEnded == LoadReturned \/ (mainpc = "lg_uvs" /\ proc = "crashed")

\* the mesh parse succeeded with an empty triangle list
ZeroTriangleCase ==
    /\ mesh_success
    /\ \/ mainpc = "lg_post_mesh" /\ mesh.triangles = 0
       \/ mainpc \notin {"lg_read_mesh", "lg_post_mesh"} /\ mesh = NullPtr

\* the mesh path produced the geometry
MeshYielded == mesh_success /\ mesh # NullPtr

\* C1: every RenderSnapshot call that has returned and whose callback was
\* invoked returned only after that callback finished its image write or
\* logged its error
C1_ReturnAfterWrite ==
    \A f \in returned : f \in flagged => f \in (cbdone \cup errors)

\* C2: the pixel buffer is freed only after the wait loop has read
\* request.frame_done as true, which only this call's callback sets
C2_FreeAfterObserved ==
    /\ buffer = "freed" => observed_done
    /\ mainpc = "rs_ret" => buffer = "freed" /\ i \in flagged

C2_Witness ==
    /\ mainpc = "rs_ret"
    /\ buffer = "freed"
    /\ i = NumFrames - 1
    /\ i \in flagged

\* main has returned 0 and the files on disk are exactly one per orbit index
AllFramesProduced ==
    /\ exitcode = <<0>>
    /\ files = {Filename(f) : f \in Frames}

\* the process died of a fault or of an uncaught exception
Died == proc \in {"crashed", "aborted"}

\* C3: once the geometry has loaded, the run goes on to return from main with
\* exactly one image file per orbit index on disk, unless an image write
\* fails, whether the engine accepts or declines beginFrame (runs in which
\* the process dies are set aside)
C3_AllFramesProduced ==
    (mainpc = "setup" /\ proc = "running")
        ~> (AllFramesProduced \/ writeFailed # {} \/ Died)

\* the decimal value of a digit sequence
RECURSIVE DigitsValue(_)
DigitsValue(d) ==
    IF d = << >> THEN 0 ELSE 10 * DigitsValue(SubSeq(d, 1, Len(d) - 1)) + d[Len(d)]

\* name is out_<n zero-padded to 5 digits>.png in the output directory
IsOrbitName(name, n) ==
    /\ Len(name) = FmtWidth + 2
    /\ name[1] = "headless_out/out_"
    /\ name[Len(name)] = ".png"
    /\ \A k \in 2 .. (FmtWidth + 1) : name[k] \in 0 .. 9
    /\ DigitsValue(SubSeq(name, 2, FmtWidth + 1)) = n

\* the filename of each of the 360 orbit indices is well formed (so the
\* names are pairwise distinct: a name determines its index)
OrbitNamesWellFormed ==
    \A n \in 0 .. (OrbitCount - 1) : IsOrbitName(Filename(n), n)

\* C4: the RenderSnapshot calls made so far are those of indices 0, 1, 2, ...
\* in this order, each once, each with the filename out_<index, 5 digits>.png
\* and with the camera already at that index's pose; when main returns 0 every
\* index has been called
C4_OrbitOrder ==
    /\ mainpc = "start" => OrbitNamesWellFormed
    /\ Len(calls) <= NumFrames
    /\ \A k \in 1 .. Len(calls) :
         /\ calls[k][1] = k - 1
         /\ IsOrbitName(calls[k][2], k - 1)
         /\ calls[k][3] = <<"orbit", k - 1>>
    /\ exitcode = <<0>> => Len(calls) = NumFrames

C4_Witness ==
    /\ exitcode = <<0>>
    /\ Len(calls) = NumFrames
    /\ calls[NumFrames][2] = Filename(NumFrames - 1)

\* readbacks issued whose callback has not yet set the completion flag
Outstanding == pending \cup (IF cbpc = "set_done" THEN {cb.frame} ELSE {})

\* C5: at most one readback is outstanding, and a RenderSnapshot call is
\* entered only after the callback of the previous frame has set its flag
C5_NoOverlap ==
    /\ Cardinality(Outstanding) <= 1
    /\ \A k \in 2 .. Len(calls) : calls[k - 1][1] \in flagged

C5_Witness ==
    /\ Len(calls) = NumFrames
    /\ Outstanding = {NumFrames - 1}
    /\ mainpc = "rs_wait"

\* C6: main returns -1 exactly when argc < 2 or the geometry failed to load,
\* then without any RenderSnapshot call; otherwise it returns 0, and only
\* after every RenderSnapshot call has returned
C6_ExitCodes ==
    /\ (mainpc = "returned") <=> (exitcode # << >>)
    /\ exitcode \in {<< >>, <<-1>>, <<0>>}
    /\ mainpc = "returned" =>
         ((exitcode = <<-1>>) <=> (argc < 2 \/ geom = NullPtr))
    /\ exitcode = <<-1>> => calls = << >>
    /\ exitcode = <<0>> => returned = Frames /\ Len(calls) = NumFrames

C6_Witness ==
    /\ mainpc = "returned"
    /\ exitcode = <<-1>>
    /\ argc >= 2
    /\ geom = NullPtr

\* C7: when the mesh parse succeeds with zero triangles, LoadGeometry goes on
\* to the point-cloud parse and returns a PointCloud if that parse succeeds
\* and none otherwise
C7_ZeroTrianglesFallBack ==
    ZeroTriangleCase =>
      /\ proc # "crashed"
      /\ LoadReturned =>
           /\ cloudOutcome # "none"
           /\ (cloudOutcome = "true") => geometry.kind = "PointCloud"
           /\ (cloudOutcome # "true") => geometry = NullPtr

\* C8: a TriangleMesh returned by LoadGeometry has at least one triangle, one
\* normal per vertex and three UVs per triangle
C8_LoadedMesh ==
    (LoadReturned /\ geometry.kind = "TriangleMesh") =>
       /\ geometry.triangles >= 1
       /\ geometry.vertex_normals = geometry.vertices
       /\ geometry.triangle_uvs = 3 * geometry.triangles

C8_Witness ==
    /\ mainpc = "check_geom"
    /\ geom.kind = "TriangleMesh"
    /\ geom.uvs_src = "resized"
    /\ geom.triangles = MaxTris

\* C9: an exception of either parser is caught and counts as that parse
\* returning false: no exception leaves LoadGeometry, after a mesh-parse
\* exception the point-cloud parse is attempted, after a point-cloud-parse
\* exception the result is none
C9_ExceptionsCaught ==
    /\ proc = "aborted" => cbpc = "threw"
    /\ (meshOutcome = "throw" /\ mainpc # "lg_read_mesh") => ~mesh_success
    /\ (meshOutcome = "throw" /\ LoadReturned) => cloudOutcome # "none"
    /\ (cloudOutcome = "throw" /\ LoadReturned) => geometry = NullPtr

C9_Witness ==
    /\ meshOutcome = "throw"
    /\ cloudOutcome = "throw"
    /\ mainpc = "lg_return"
    /\ proc = "running"

\* C10: the mesh parse is attempted only for files classified as containing
\* triangles; the point-cloud parse is attempted exactly when the mesh path
\* yielded no geometry; the result is none exactly when the mesh path yielded
\* none and the point-cloud parse failed
C10_FallbackOrder ==
    /\ meshOutcome # "none" => geometry_type
    /\ LoadEnded => ((cloudOutcome # "none") <=> ~MeshYielded)
    /\ LoadReturned =>
         ((geometry = NullPtr) <=> (~MeshYielded /\ cloudOutcome \in {"false", "throw"}))

(* ------------------- RenderSnapshot: decline, wait, callback ------------ *)
\* the control thread has passed endFrame and waits, or is past the wait
PastEndFrame == mainpc \in {"rs_wait", "rs_free", "rs_ret"}

\* the running call had its beginFrame declined and has reached the wait
DeclinedWait == mainpc = "rs_wait" /\ ~began /\ proc = "running"

\* the number of positions of the sequence s that hold x
CountOf(s, x) == Cardinality({k \in 1..Len(s) : s[k] = x})

\* s is an initial segment of t
IsPrefix(s, t) == Len(s) <= Len(t) /\ \A k \in 1..Len(s) : s[k] = t[k]

\* the engine calls of a call whose frame began, and of one whose frame was declined
OpsBegun == <<"beginFrame", "render", "readPixels", "endFrame">>

OpsDeclined == <<"beginFrame", "endFrame">>

\* C13: a declined beginFrame is a soft failure: the RenderSnapshot call of
\* that orbit index returns (without an image) and the loop goes on, unless
\* the process died meanwhile
C13_DeclineIsSoft ==
    \A f \in Frames :
        (mainpc = "rs_end" /\ ~began /\ i = f /\ proc = "running")
            ~> (f \in returned \/ Died)

\* C14: the wait has no timeout: after a declined beginFrame the flag stays
\* false and the call stays in the wait; conversely, once the callback of an
\* orbit index fires, the RenderSnapshot call of that index returns
C14_WaitUntilCallback ==
    /\ [](DeclinedWait => (request # NullPtr /\ ~request.frame_done /\ i \notin pending))
    /\ \A f \in Frames : (cbpc = "set_done" /\ cb.frame = f) ~> (f \in returned)

\* a step of the callback: it moves on, or faults
CallbackStep == cbpc' # cbpc \/ (proc = "running" /\ proc' = "crashed" /\ cbpc # "idle")

\* the callback is at a statement that accesses an object already released:
\* rr->frame_done, rr->output_filename, or the pixel buffer
AtStaleAccess ==
    \/ cbpc \in {"set_done", "check", "write"} /\ ~RequestAlive(cb.frame)
    \/ cbpc = "copy" /\ ~BufferAlive(cb.frame)

\* C15: the callback reads no pixel buffer that was freed and accesses no
\* RenderRequest of a RenderSnapshot call that has returned
C15_NoStaleAccess == [][CallbackStep => ~AtStaleAccess]_vars

\* C16: within one RenderSnapshot call the engine calls are beginFrame, then
\* (only if it succeeded) render and readPixels, then endFrame, each once and
\* in this order; the wait starts only after endFrame
C16_EngineCallOrder ==
    /\ IsPrefix(ops, OpsBegun) \/ IsPrefix(ops, OpsDeclined)
    /\ mainpc \in {"rs_render", "rs_end"} => ops # << >>
    /\ (mainpc = "rs_end" /\ ~began) => ops = <<"beginFrame">>
    /\ PastEndFrame => ops = (IF began THEN OpsBegun ELSE OpsDeclined)

C16_Witness ==
    /\ mainpc = "rs_wait"
    /\ began
    /\ ops = OpsBegun
    /\ i = NumFrames - 1
    /\ proc = "running"

\* C17: every RenderSnapshot call invokes endFrame exactly once, also when
\* beginFrame was declined
C17_EndFrameOnce ==
    /\ CountOf(ops, "endFrame") <= 1
    /\ PastEndFrame => CountOf(ops, "endFrame") = 1
    /\ mainpc \in {"rs_begin", "rs_render", "rs_end"} => CountOf(ops, "endFrame") = 0

C17_Witness ==
    /\ DeclinedWait
    /\ ops = OpsDeclined
    /\ CountOf(ops, "endFrame") = 1

\* C18: every callback invocation sets the completion flag before it
\* branches; it calls WriteImage exactly once when the filename it read is
\* non-empty and buffer_size > 0, and never otherwise
C18_CallbackContract ==
    /\ cbpc \in {"check", "copy", "write", "log_error", "threw"} => cb.frame \in flagged
    /\ cbpc \in {"copy", "write"} =>
         (cb.checked # << >> /\ cb.checked[1] # EmptyName /\ cb.buffer_size > 0)
    /\ cbpc \in {"log_error", "threw"} =>
         (cb.checked # << >> /\ (cb.checked[1] = EmptyName \/ cb.buffer_size = 0))
    /\ \A f \in Frames :
         /\ CountOf(writeLog, f) <= 1
         /\ f \in cbdone => (f \in flagged /\ CountOf(writeLog, f) = 1)
         /\ f \in errors => (f \in flagged /\ CountOf(writeLog, f) = 0)
         /\ (cbpc # "idle" /\ cb.frame = f) => CountOf(writeLog, f) = 0

C18_Witness ==
    /\ cbpc = "threw"
    /\ cb.buffer_size = 0
    /\ cb.checked = <<Filename(cb.frame)>>
    /\ cb.frame \in flagged
    /\ \E f \in cbdone : CountOf(writeLog, f) = 1

\* C19: an empty filename or a zero buffer_size is only logged: no exception
\* leaves the callback and the process is not aborted
C19_BadInputOnlyLogged ==
    \A f \in errors : (proc # "aborted" /\ cbpc # "threw")

\* C20: a failed WriteImage for an orbit index is only a warning: the call of
\* that index returns, the later indices are still captured, main returns 0
C20_WriteFailureIsWarning ==
    \A f \in Frames :
        /\ (f \in writeFailed) ~> (f \in returned)
        /\ (f \in writeFailed) ~> (exitcode = <<0>> /\ Frames \subseteq returned)

(* --------------------------- material binding --------------------------- *)
\* C11: PrepareGeometry is idempotent on materials_: after a second call on
\* the same geometry the properties and all nine map handles are the ones the
\* first call left
C11_PrepareIdempotent == prep_calls >= 2 => materials_ = materials_once

(* ------------------------------- mesh I/O ------------------------------- *)
\* the extension of the filename is empty or has no registered handler
UnknownExtension ==
    LET ext == GetFileExtensionInLowerCase(io_filename)
        table == IF io_op = "read" THEN file_extension_to_trianglemesh_read_function
                                   ELSE file_extension_to_trianglemesh_write_function
    IN  ext = << >> \/ ext \notin DOMAIN table

\* C12: for a filename whose lower-cased extension is empty or not registered,
\* ReadTriangleMesh and WriteTriangleMesh return false, invoke no format
\* handler, and the mesh argument is as the caller passed it
C12_UnknownExtension ==
    (io_pc = "done" /\ UnknownExtension) =>
        /\ io_result = <<FALSE>>
        /\ io_handlers = << >>
        /\ io_mesh = CallerMesh
        /\ Len(io_warnings) = 1

C12_Witness ==
    /\ io_pc = "done"
    /\ io_op = "read"
    /\ Len(io_filename) = MaxNameLen
    /\ GetFileExtensionInLowerCase(io_filename) = <<"p", "l">>
    /\ io_result = <<FALSE>>

(* ------------------------ LoadGeometry: fill-ins ------------------------ *)
\* TriangleMesh::HasVertexNormals
HasVertexNormals(m) == m.vertices > 0 /\ m.vertex_normals = m.vertices

\* the step of LoadGeometry over lines 72-77, for a mesh with triangles
PostMeshStep ==
    /\ mainpc = "lg_post_mesh"
    /\ mainpc' = "lg_uvs"
    /\ mesh_success
    /\ mesh.triangles > 0

\* the step of LoadGeometry over lines 79-82, for a mesh that was not reset
UvsStep == mainpc = "lg_uvs" /\ mainpc' = "lg_read_cloud" /\ mesh # NullPtr

\* C21: for a mesh that parsed with triangles LoadGeometry fills in only what
\* is absent: vertex normals, vertex colours and UVs that the file supplied
\* are returned as the file supplied them
C21_FillsOnlyAbsent ==
    [][ /\ (PostMeshStep /\ HasVertexNormals(mesh)) => mesh'.normals_src = "file"
        /\ (PostMeshStep /\ mesh.vertex_colors > 0) =>
               (mesh'.colors_src = "file" /\ mesh'.vertex_colors = mesh.vertex_colors)
        /\ (UvsStep /\ HasTriangleUvs(mesh)) =>
               (mesh'.uvs_src = "file" /\ mesh'.triangle_uvs = mesh.triangle_uvs)
      ]_vars

\* C27: on every path through LoadGeometry the mesh and cloud pointers are
\* non-null where they are dereferenced: lines 68-76 and 80-81 through mesh,
\* lines 100-103 through cloud
C27_NoNullDereference ==
    [][ /\ (mainpc = "lg_post_mesh" /\ mainpc' # mainpc /\ mesh_success) => mesh # NullPtr
        /\ (mainpc = "lg_uvs" /\ (mainpc' # mainpc \/ proc' = "crashed")) => mesh # NullPtr
        /\ (mainpc = "lg_read_cloud" /\ cloudOutcome' = "true") => cloud' # NullPtr
      ]_vars

(* ----------------------- material binding: slots ------------------------ *)
\* the geometry is a mesh with at least one material
Bindable(g) == g.kind = "TriangleMesh" /\ g.materials # << >>

\* a PrepareGeometry call is made in this step
PrepStep == prep_calls' = prep_calls + 1

\* the textures this step adds for the image of the first material in a slot
Uploads(sl) ==
    {k \in (Len(textures) + 1) .. Len(textures') : textures'[k] = <<"first", sl>>}

\* C22: after PrepareGeometry on a mesh with a material each slot holds the
\* handle AddTexture returned for the first material's image when that image
\* is present and has data, and its old handle otherwise; AddTexture is called
\* once per valid image and never for an absent or empty one
C22_SlotBinding ==
    [][ (PrepStep /\ Bindable(prep_geom)) =>
          /\ Len(textures') >= Len(textures)
          /\ \A k \in 1 .. Len(textures) : textures'[k] = textures[k]
          /\ \A k \in (Len(textures) + 1) .. Len(textures') :
                \E sl \in DOMAIN MapOf : Uploads(sl) = {k}
          /\ \A sl \in DOMAIN MapOf :
                IF prep_geom.materials[1].images[sl] = "data"
                  THEN \E k \in (Len(textures) + 1) .. Len(textures') :
                          /\ Uploads(sl) = {k}
                          /\ materials_'.maps[MapOf[sl]] = TextureHandle(k)
                  ELSE /\ Uploads(sl) = {}
                       /\ materials_'.maps[MapOf[sl]] = materials_.maps[MapOf[sl]]
      ]_vars

C22_Witness ==
    /\ prep_calls = 1
    /\ Bindable(prep_geom)
    /\ prep_geom.materials[1].images =
          [sl \in DOMAIN MapOf |-> IF sl = "albedo" THEN "data"
                                   ELSE IF sl = "normalMap" THEN "empty" ELSE "absent"]
    /\ textures = << <<"prior", "image">>, <<"first", "albedo">> >>
    /\ materials_.maps.albedo_map = TextureHandle(2)
    /\ materials_.maps.normal_map = TextureHandle(1)

\* C23: after PrepareGeometry on a mesh with a material the metallic scalar is
\* 1.f when the first material's metallic map is present with data and 0.f
\* otherwise, whatever it was before and whatever scalar the material carries
C23_MetallicForced ==
    (prep_calls >= 1 /\ Bindable(prep_geom)) =>
        materials_.properties.metallic =
            (IF prep_geom.materials[1].images["metallic"] = "data"
               THEN <<"const", "1.f">> ELSE <<"const", "0.f">>)

C23_Witness ==
    /\ prep_calls = 1
    /\ Bindable(prep_geom)
    /\ prep_geom.materials[1].images["metallic"] = "empty"
    /\ textures # << >>
    /\ textures[1] = <<"prior", "image">>
    /\ materials_.properties.roughness = <<"first", "baseRoughness">>
    /\ materials_.properties.metallic = <<"const", "0.f">>

\* C24: PrepareGeometry with a point cloud, or with a mesh without materials,
\* changes no field of materials_.properties, no handle of materials_.maps and
\* adds no texture
C24_NoOpWithoutMaterial ==
    [][ (PrepStep /\ ~Bindable(prep_geom)) => UNCHANGED <<materials_, textures>> ]_vars

C24_Witness ==
    /\ prep_calls = MaxPrepCalls
    /\ prep_geom.kind = "PointCloud"
    /\ materials_ = PriorMaterials
    /\ Len(textures) = 1

(* ------------------------ set-up state and orbit ------------------------ *)
\* the first RenderSnapshot call has been made
OrbitStarted == calls # << >>

\* C25: from the first RenderSnapshot call on, materials_ (properties, maps,
\* material instances), the renderer's textures, the scene and the geometry
\* are never modified; what an iteration creates (the RenderRequest, the pixel
\* buffer of its call) is gone when the next iteration starts
C25_SetupFrozen ==
    [][ OrbitStarted =>
          /\ UNCHANGED <<materials_, textures, material_instances, scene, geom>>
          /\ mainpc' = "loop" => (request' = NullPtr /\ buffer' # "allocated")
      ]_vars

C25_Witness ==
    /\ mainpc = "loop"
    /\ i = NumFrames
    /\ proc = "running"
    /\ geom.kind = "TriangleMesh"
    /\ geom.materials # << >>
    /\ materials_.maps.albedo_map = TextureHandle(1)
    /\ material_instances.lit_material.params[2] = materials_.maps
    /\ scene.geometries = {[geometry |-> geom, material |-> "kNormalsMaterial"]}

(* ------------------------ LoadGeometry: point cloud --------------------- *)
\* C26: when the point-cloud parse succeeds LoadGeometry estimates normals
\* exactly when the cloud has none, normalizes in every case, and only then
\* returns the cloud: a returned PointCloud has one unit normal per point
C26_CloudNormals ==
    /\ mainpc = "start" =>
         \A c \in ParsedClouds :
            LET r == MassageCloud(c)
            IN  /\ (r.normals_src = "estimated") <=> ~HasNormals(c)
                /\ HasNormals(c) => (r.normals_src = "file" /\ r.normals = c.normals)
                /\ r.unit
                /\ r.normals = r.points
    /\ (mainpc \in {"lg_return", "check_geom"} /\ geometry.kind = "PointCloud") =>
         /\ cloudOutcome = "true"
         /\ geometry \in {MassageCloud(c) : c \in ParsedClouds}
    /\ (LoadReturned /\ geometry.kind = "PointCloud") =>
         /\ geometry.points > 0
         /\ geometry.normals = geometry.points
         /\ geometry.normals_src \in {"file", "estimated"}
         /\ geometry.unit

C26_Witness ==
    /\ mainpc = "check_geom"
    /\ proc = "running"
    /\ geom.kind = "PointCloud"
    /\ geom.points = MaxPoints
    /\ geom.normals_src = "estimated"
    /\ geom.normals = geom.points
    /\ geom.unit

(* --------------------------- Visualizer redraw -------------------------- *)
\* one window event is delivered to the callback cbname
Delivered(cbname) == events' = events + 1 /\ last_callback'.cb = cbname

\* C28: WindowRefreshCallback calls Render exactly when is_redraw_required_
\* is true and leaves the flag false, so the second of two refreshes with no event
\* in between renders nothing; every resize, mouse-move, scroll and non-release
\* key event sets the flag; a key-release changes no state of the Visualizer
C28_RedrawFlag ==
    [][ /\ Delivered("WindowRefreshCallback") =>
             /\ visualizer'.renders =
                    visualizer.renders + (IF visualizer.is_redraw_required_ THEN 1 ELSE 0)
             /\ ~visualizer'.is_redraw_required_
        /\ (Delivered("WindowRefreshCallback") /\ last_callback.cb = "WindowRefreshCallback") =>
             visualizer'.renders = visualizer.renders
        /\ (\/ Delivered("WindowResizeCallback")
            \/ Delivered("MouseMoveCallback")
            \/ Delivered("MouseScrollCallback")
            \/ Delivered("KeyPressCallback") /\ last_callback'.action # "GLFW_RELEASE") =>
             visualizer'.is_redraw_required_
        /\ (Delivered("KeyPressCallback") /\ last_callback'.action = "GLFW_RELEASE") =>
             visualizer' = visualizer
      ]_vars

C28_Witness ==
    /\ events >= 2
    /\ last_callback.cb = "WindowRefreshCallback"
    /\ visualizer.view_control_[1] = "Scale"
    /\ visualizer.renders = 1
    /\ ~visualizer.is_redraw_required_

====
